---- MODULE Spec2Model ----
(***************************************************************************)
(* TCRCompare (src/TCRCompare.py): discovery of per-group clonotype tables *)
(* from a filename template, and the comparison of the two groups of each  *)
(* specimen.                                                               *)
(*                                                                         *)
(* A Python str is a sequence of one-character strings.  Two characters    *)
(* outside ASCII are written by name: "sup2" is U+00B2 (SUPERSCRIPT TWO)   *)
(* and "ar3" is U+0663 (ARABIC-INDIC DIGIT THREE).                         *)
(***************************************************************************)
EXTENDS Integers, Sequences, FiniteSets, TLC

VARIABLES
    template,     \* FILENAME_TEMPLATE
    files,        \* the working directory: file name -> table
    specimens,    \* load_files' dict, in insertion order: [specimen, groups]
    pc,           \* where main is: "start", "loop", "done" or "raised"
    idx,          \* the position of main's loop in specimens
    inferred_sep, \* the separator extract_specimen_and_group inferred
    frames,       \* the last specimen sorted: the index of df_a and of df_b
    outputs,      \* the tables written, one per compared specimen
    diagnostics,  \* the skip messages printed, in order
    exc           \* the exception that ended the run, or None

vars == <<template, files, specimens, pc, idx, inferred_sep, frames, outputs, diagnostics, exc>>

(***************************************************************************)
(* Characters and the str methods the program uses                         *)
(***************************************************************************)
UpperLetters ==
    <<"A","B","C","D","E","F","G","H","I","J","K","L","M",
      "N","O","P","Q","R","S","T","U","V","W","X","Y","Z">>

LowerLetters ==
    <<"a","b","c","d","e","f","g","h","i","j","k","l","m",
      "n","o","p","q","r","s","t","u","v","w","x","y","z">>

AsciiDigits == <<"0","1","2","3","4","5","6","7","8","9">>

Range(s) == { s[i] : i \in DOMAIN s }

\* None where a character is expected (re.search found nothing).
None == "None"

\* None where a str is expected: no str has this character.
NoneStr == << "None" >>

\* None where an index is expected.
NoIndex == 0 - 1

WordChars ==
    Range(UpperLetters) \cup Range(LowerLetters) \cup Range(AsciiDigits)
        \cup {"_", "sup2", "ar3"}

\* re: \w for a str pattern (letters, digits, underscore); \W is its complement.
IsWordChar(c) == c \in WordChars

\* str.isspace for one character.
IsSpace(c) == c \in {" ", "\t"}

\* str.lower for one character.
LowerChar(c) ==
    IF c \in Range(UpperLetters)
    THEN LowerLetters[CHOOSE i \in DOMAIN UpperLetters : UpperLetters[i] = c]
    ELSE c

\* str.lower
Lower(s) == [i \in DOMAIN s |-> LowerChar(s[i])]

\* str.strip
Strip(s) ==
    LET keep == { i \in DOMAIN s : ~IsSpace(s[i]) }
    IN  IF keep = {} THEN << >>
        ELSE LET lo == CHOOSE i \in keep : \A j \in keep : i <= j
                 hi == CHOOSE i \in keep : \A j \in keep : j <= i
             IN  SubSeq(s, lo, hi)

\* s[i:i+len(t)] == t
MatchesAt(s, t, i) ==
    /\ i >= 1
    /\ i + Len(t) - 1 <= Len(s)
    /\ SubSeq(s, i, i + Len(t) - 1) = t

\* t in s
Contains(s, t) == \E i \in 1..(Len(s) + 1) : MatchesAt(s, t, i)

\* str.startswith
StartsWith(s, t) == MatchesAt(s, t, 1)

\* str.split(sep) for a one-character sep: the parts between the occurrences.
RECURSIVE SplitFrom(_, _, _, _)
SplitFrom(s, sep, i, cur) ==
    IF i > Len(s) THEN << cur >>
    ELSE IF s[i] = sep
         THEN << cur >> \o SplitFrom(s, sep, i + 1, << >>)
         ELSE SplitFrom(s, sep, i + 1, Append(cur, s[i]))

Split(s, sep) == SplitFrom(s, sep, 1, << >>)

\* s.split(t)[0] for a str t: the text before the first occurrence of t.
BeforeFirst(s, t) ==
    IF Contains(s, t)
    THEN LET i == CHOOSE k \in 1..(Len(s) + 1) :
                      /\ MatchesAt(s, t, k)
                      /\ \A j \in 1..(k - 1) : ~MatchesAt(s, t, j)
         IN  SubSeq(s, 1, i - 1)
    ELSE s

\* os.path.splitext(p)[0] (posixpath): cut at the last dot that follows the
\* last "/" and is not one of the leading dots of the file name.
SplitExtRoot(p) ==
    LET seps    == { i \in DOMAIN p : p[i] = "/" }
        dots    == { i \in DOMAIN p : p[i] = "." }
        sepIdx  == IF seps = {} THEN 0 ELSE CHOOSE i \in seps : \A j \in seps : j <= i
        dotIdx  == IF dots = {} THEN 0 ELSE CHOOSE i \in dots : \A j \in dots : j <= i
    IN  IF /\ dotIdx > sepIdx
           /\ \E k \in (sepIdx + 1)..(dotIdx - 1) : p[k] # "."
        THEN SubSeq(p, 1, dotIdx - 1)
        ELSE p

SPECIMEN == <<"{","s","p","e","c","i","m","e","n","}">>

GROUP == <<"{","g","r","o","u","p","}">>

\* re.search(r"\{<name>}(\W)", template): the group of the leftmost match, or
\* None.
SearchAfter(tmpl, placeholder) ==
    LET hits == { i \in 1..Len(tmpl) :
                    /\ MatchesAt(tmpl, placeholder, i)
                    /\ i + Len(placeholder) <= Len(tmpl)
                    /\ ~IsWordChar(tmpl[i + Len(placeholder)]) }
    IN  IF hits = {} THEN None
        ELSE tmpl[(CHOOSE i \in hits : \A j \in hits : i <= j) + Len(placeholder)]

ValueError == "ValueError"

KeyError == "KeyError"

\* infer_separator: the separator character, or ValueError when it raises.
infer_separator(tmpl) ==
    IF SearchAfter(tmpl, SPECIMEN) # None THEN SearchAfter(tmpl, SPECIMEN)
    ELSE IF SearchAfter(tmpl, GROUP) # None THEN SearchAfter(tmpl, GROUP)
    ELSE IF Contains(tmpl, <<"-">>) THEN "-"
    ELSE IF Contains(tmpl, <<"_">>) THEN "_"
    ELSE ValueError

\* The index (0-based, as in the code) of the last part that contains the
\* placeholder, or None.
LastPartWith(parts, placeholder) ==
    LET at == { i \in DOMAIN parts : Contains(parts[i], placeholder) }
    IN  IF at = {} THEN NoIndex
        ELSE (CHOOSE i \in at : \A j \in at : j <= i) - 1

\* get_template_positions
get_template_positions(tmpl, sep) ==
    LET parts == Split(SplitExtRoot(tmpl), sep)
    IN  << LastPartWith(parts, SPECIMEN), LastPartWith(parts, GROUP) >>

\* extract_specimen_and_group, for a template whose separator is inferable:
\* <<specimen, group>>, or <<None, None>> on IndexError / TypeError.
extract_specimen_and_group(tmpl, filename) ==
    LET sep          == infer_separator(tmpl)
        fname_parts  == Split(SplitExtRoot(filename), sep)
        pos          == get_template_positions(tmpl, sep)
        specimen_idx == pos[1]
        group_idx    == pos[2]
    IN  IF \/ specimen_idx = NoIndex
           \/ specimen_idx + 1 > Len(fname_parts)
           \/ group_idx = NoIndex
           \/ group_idx + 1 > Len(fname_parts)
        THEN << NoneStr, NoneStr >>
        ELSE LET specimen_part     == fname_parts[specimen_idx + 1]
                 group             == fname_parts[group_idx + 1]
                 template_parts    == Split(SplitExtRoot(tmpl), sep)
                 specimen_template == template_parts[specimen_idx + 1]
                 prefix            == BeforeFirst(specimen_template, SPECIMEN)
             IN  IF prefix # << >> /\ StartsWith(specimen_part, prefix)
                 THEN << SubSeq(specimen_part, Len(prefix) + 1, Len(specimen_part)),
                         group >>
                 ELSE << specimen_part, group >>

\* str.replace(t, r): every occurrence, left to right, without overlap.
RECURSIVE ReplaceFrom(_, _, _, _)
ReplaceFrom(s, t, r, i) ==
    IF i > Len(s) THEN << >>
    ELSE IF MatchesAt(s, t, i)
         THEN r \o ReplaceFrom(s, t, r, i + Len(t))
         ELSE << s[i] >> \o ReplaceFrom(s, t, r, i + 1)

\* build_glob_pattern
build_glob_pattern(tmpl) ==
    ReplaceFrom(ReplaceFrom(tmpl, SPECIMEN, <<"*">>, 1), GROUP, <<"*">>, 1)

\* fnmatch of a name against a pattern whose only wildcard is "*".
RECURSIVE FnMatch(_, _, _, _)
FnMatch(pat, name, i, j) ==
    IF i > Len(pat) THEN j > Len(name)
    ELSE IF pat[i] = "*"
         THEN \E k \in j..(Len(name) + 1) : FnMatch(pat, name, i + 1, k)
         ELSE /\ j <= Len(name)
              /\ pat[i] = name[j]
              /\ FnMatch(pat, name, i + 1, j + 1)

\* glob.glob(pattern) in the working directory: the names the pattern matches;
\* a name with a leading dot is matched only by a pattern with a leading dot.
GlobMatches(pat, name) ==
    /\ FnMatch(pat, name, 1, 1)
    /\ (name # << >> /\ name[1] = ".") => (pat # << >> /\ pat[1] = ".")

\* The code points of the characters in use, in increasing order.
CodePoints ==
    <<"\t", " ", "*", "+", "-", ".", "/">> \o AsciiDigits \o UpperLetters
        \o <<"_">> \o LowerLetters \o <<"{", "}", "sup2", "ar3">>

Ord(c) == CHOOSE i \in DOMAIN CodePoints : CodePoints[i] = c

\* a < b for two str (the order sorted() uses).
StrLess(a, b) ==
    \E k \in 1..(Len(b)) :
        /\ k <= Len(a) + 1
        /\ \A j \in 1..(k - 1) : a[j] = b[j]
        /\ (k = Len(a) + 1 \/ Ord(a[k]) < Ord(b[k]))

(***************************************************************************)
(* Tables: what pd.read_excel(..., dtype=str).fillna("") returns.  A table *)
(* is [columns, rows]; a row maps each column of the table to a str.       *)
(***************************************************************************)
cols_of_interest ==
    << <<"v","_","g","e","n","e","_","a">>, <<"j","_","g","e","n","e","_","a">>,
       <<"c","d","r","3","_","a">>, <<"c","d","r","3","_","b">>,
       <<"v","_","g","e","n","e","_","b">>, <<"j","_","g","e","n","e","_","b">> >>

COUNT == <<"C","o","u","n","t">>

CLONOTYPE_ID == <<"C","l","o","n","o","t","y","p","e","_","I","D">>

\* [col for col in cols_of_interest if col not in df.columns]
missing_cols(df) ==
    SelectSeq(cols_of_interest, LAMBDA col : col \notin df.columns)

\* compare_specimen.valid_row
valid_row(row) ==
    \A i \in DOMAIN cols_of_interest :
        LET val == Strip(row[cols_of_interest[i]])
        IN  ~(val = << >> \/ Lower(val) = <<"n","a">>)

\* df[df.apply(valid_row, axis=1)]: the valid rows, in their order.
Validated(df) == SelectSeq(df.rows, valid_row)

\* str.isdigit for one character: the decimal digits and the other digits
\* (superscripts).
IsDigitChar(c) == c \in {"0","1","2","3","4","5","6","7","8","9","sup2","ar3"}

\* str.isdigit
isdigit(s) == s # << >> /\ \A i \in DOMAIN s : IsDigitChar(s[i])

\* The characters int() reads as decimal digits (Unicode category Nd).
IsDecimalChar(c) == c \in {"0","1","2","3","4","5","6","7","8","9","ar3"}

DigitValue(c) ==
    IF c = "ar3" THEN 3
    ELSE (CHOOSE i \in DOMAIN AsciiDigits : AsciiDigits[i] = c) - 1

\* The digits of an int() literal: decimal digits, with single underscores
\* allowed between two digits.
IsDigitBody(d) ==
    /\ d # << >>
    /\ \A i \in DOMAIN d :
          \/ IsDecimalChar(d[i])
          \/ /\ d[i] = "_"
             /\ 1 < i /\ i < Len(d)
             /\ IsDecimalChar(d[i - 1]) /\ IsDecimalChar(d[i + 1])

RECURSIVE BodyValue(_, _)
BodyValue(d, n) ==
    IF n = 0 THEN 0
    ELSE IF d[n] = "_" THEN BodyValue(d, n - 1)
         ELSE 10 * BodyValue(d, n - 1) + DigitValue(d[n])

HasSign(s) == s # << >> /\ s[1] \in {"+", "-"}

Unsigned(s) == IF HasSign(s) THEN Tail(s) ELSE s

\* int(s) does not raise ValueError: surrounding whitespace, one optional sign,
\* digits.
IntParseable(s) == IsDigitBody(Unsigned(Strip(s)))

\* int(s), for a parseable s.
IntValue(s) ==
    LET t == Strip(s)
        v == BodyValue(Unsigned(t), Len(Unsigned(t)))
    IN  IF HasSign(t) /\ t[1] = "-" THEN 0 - v ELSE v

\* compare_specimen.to_int on a cell
to_int(val) == IF IntParseable(val) THEN IntValue(val) ELSE 0

\* row.get(col, 0) followed by to_int: the default 0 when the column is absent.
get_to_int(row, col) == IF col \in DOMAIN row THEN to_int(row[col]) ELSE 0

\* lambda x: int(x) if str(x).isdigit() else 0, where it does not raise.
Count_int(x) == IF isdigit(x) THEN IntValue(x) ELSE 0

\* The exception raised while df["Count_int"] is computed, or None: KeyError
\* when the table has no Count column, ValueError when int() rejects a cell
\* that isdigit() accepted.
CountIntRaises(df) ==
    IF COUNT \notin df.columns THEN KeyError
    ELSE IF \E i \in DOMAIN Validated(df) :
               LET x == Validated(df)[i][COUNT]
               IN  isdigit(x) /\ ~IntParseable(x)
         THEN ValueError
         ELSE None

\* df.sort_values("Count_int", ascending=False) with the default kind
\* (quicksort, not stable): the orders, as position -> input index, in which
\* Count_int does not increase; rows of equal Count_int come in any order.
sort_values(rows) ==
    { p \in Permutations(DOMAIN rows) :
        \A i, j \in DOMAIN rows :
            i < j => Count_int(rows[p[i]][COUNT]) >= Count_int(rows[p[j]][COUNT]) }

\* The sorted frame: position i holds the row of rank i.
Sorted(rows, p) == [i \in DOMAIN rows |-> rows[p[i]]]

\* compare_specimen.make_key
make_key(row) == [i \in DOMAIN cols_of_interest |-> row[cols_of_interest[i]]]

Keys(sorted) == { make_key(sorted[i]) : i \in DOMAIN sorted }

\* The slip of keeping the first row that has the key (the best-ranked
\* occurrence) instead of the last.
FirstWith(sorted, key) ==
    CHOOSE i \in DOMAIN sorted :
        /\ make_key(sorted[i]) = key
        /\ \A j \in DOMAIN sorted : make_key(sorted[j]) = key => i <= j

\* A dict comprehension over the sorted rows keeps, for a key, the entry of
\* the last row that has it.
LastWith(sorted, key) ==
    CHOOSE i \in DOMAIN sorted :
        /\ make_key(sorted[i]) = key
        /\ \A j \in DOMAIN sorted : make_key(sorted[j]) = key => j <= i

\* rank_map_a, rank_map_b
rank_map(sorted) == [key \in Keys(sorted) |-> LastWith(sorted, key)]

\* rows_a, rows_b
rows_map(sorted) == [key \in Keys(sorted) |-> sorted[LastWith(sorted, key)]]

\* The slip of reconciling only the keys the two groups share.
all_keys_shared(rows_a, rows_b) == (DOMAIN rows_a) \cap (DOMAIN rows_b)

\* all_keys
all_keys(rows_a, rows_b) == (DOMAIN rows_a) \cup (DOMAIN rows_b)

\* The slip of a default rank that is a real rank.
rank_of_default_one(rmap, key) == IF key \in DOMAIN rmap THEN rmap[key] ELSE 1

\* rank_map.get(key, 0)
rank_of(rmap, key) == IF key \in DOMAIN rmap THEN rmap[key] ELSE 0

\* The Comparison Row appended for one key (the body of the loop over
\* all_keys).
output_row(key, rows_a, rows_b, rank_map_a, rank_map_b) ==
    LET in_a    == key \in DOMAIN rows_a
        in_b    == key \in DOMAIN rows_b
        rank_a  == rank_of(rank_map_a, key)
        rank_b  == rank_of(rank_map_b, key)
        count_a == IF in_a THEN get_to_int(rows_a[key], COUNT) ELSE 0
        count_b == IF in_b THEN get_to_int(rows_b[key], COUNT) ELSE 0
    IN  [ id_a      |-> IF in_a THEN get_to_int(rows_a[key], CLONOTYPE_ID) ELSE 0,
          id_b      |-> IF in_b THEN get_to_int(rows_b[key], CLONOTYPE_ID) ELSE 0,
          presence  |-> IF in_a /\ in_b THEN "common" ELSE "unique",
          key       |-> key,
          count_a   |-> count_a,
          count_b   |-> count_b,
          count_eq  |-> (count_a = count_b /\ count_b = 1),
          rank_a    |-> rank_a,
          rank_b    |-> rank_b,
          rank_diff |-> rank_b - rank_a ]

\* output_rows, for the sorted frames of the two groups
output_rows(sorted_a, sorted_b) ==
    { output_row(key, rows_map(sorted_a), rows_map(sorted_b),
                 rank_map(sorted_a), rank_map(sorted_b)) :
        key \in all_keys(rows_map(sorted_a), rows_map(sorted_b)) }

(***************************************************************************)
(* load_files and main                                                     *)
(***************************************************************************)
\* The orders in which glob.glob can list a set of names.
RECURSIVE Orderings(_)
Orderings(S) ==
    IF S = {} THEN { << >> }
    ELSE UNION { { << x >> \o t : t \in Orderings(S \ {x}) } : x \in S }

\* `if specimen and group`: neither None nor empty.
Truthy(s) == s # NoneStr /\ s # << >>

\* specimens.setdefault(specimen, {})[group] = f
setdefault(acc, specimen, group, f) ==
    IF \E i \in DOMAIN acc : acc[i].specimen = specimen
    THEN [ i \in DOMAIN acc |->
             IF acc[i].specimen = specimen
             THEN [ specimen |-> specimen,
                    groups   |-> [ g \in DOMAIN acc[i].groups \cup {group} |->
                                     IF g = group THEN f ELSE acc[i].groups[g] ] ]
             ELSE acc[i] ]
    ELSE Append(acc, [ specimen |-> specimen, groups |-> [ g \in {group} |-> f ] ])

\* The loop of load_files over the listed files; extracted[f] is what
\* extract_specimen_and_group returns for the file f.
RECURSIVE load_loop(_, _, _, _)
load_loop(extracted, order, i, acc) ==
    IF i > Len(order) THEN acc
    ELSE LET sg == extracted[order[i]]
         IN  load_loop(extracted, order, i + 1,
                       IF Truthy(sg[1]) /\ Truthy(sg[2])
                       THEN setdefault(acc, sg[1], sg[2], order[i])
                       ELSE acc)

\* sorted(groups.keys())
sorted_keys(groups) ==
    CHOOSE seq \in Orderings(DOMAIN groups) :
        \A i, j \in DOMAIN seq : i < j => StrLess(seq[i], seq[j])

NoFrames == [ specimen |-> NoneStr, index_a |-> << >>, index_b |-> << >> ]

\* load_files: list the files the pattern matches, in the order glob yields
\* them, and group them by specimen.  infer_separator raises on the first
\* file when the template has no separator.
LoadFiles ==
    /\ pc = "start"
    /\ LET pattern == build_glob_pattern(template)
           matched == { f \in DOMAIN files : GlobMatches(pattern, f) }
       IN  IF matched # {} /\ infer_separator(template) = ValueError
           THEN /\ pc' = "raised"
                /\ exc' = ValueError
                /\ UNCHANGED <<specimens, idx, inferred_sep, diagnostics>>
           ELSE LET extracted ==
                      [ f \in matched |-> extract_specimen_and_group(template, f) ]
                IN
                /\ \E order \in Orderings(matched) :
                      specimens' = load_loop(extracted, order, 1, << >>)
                /\ inferred_sep' = IF matched = {} THEN None ELSE infer_separator(template)
                /\ diagnostics' =
                      IF specimens' = << >>
                      THEN Append(diagnostics, [ kind |-> "no_input" ])
                      ELSE diagnostics
                /\ idx' = 1
                /\ pc' = "loop"
                /\ UNCHANGED exc
    /\ UNCHANGED <<template, files, frames, outputs>>

\* main, one specimen whose number of groups is not 2: the skip message.
SkipSpecimen ==
    /\ pc = "loop"
    /\ idx <= Len(specimens)
    /\ LET group_names == sorted_keys(specimens[idx].groups)
       IN  /\ Len(group_names) # 2
           /\ diagnostics' = Append(diagnostics,
                  [ kind        |-> "groups",
                    specimen    |-> specimens[idx].specimen,
                    group_names |-> group_names ])
    /\ idx' = idx + 1
    /\ UNCHANGED <<template, files, specimens, pc, inferred_sep, frames, outputs, exc>>

\* main, one specimen with two groups: compare_specimen, which returns after
\* the missing-columns message, raises, or writes the output table.
CompareSpecimen ==
    /\ pc = "loop"
    /\ idx <= Len(specimens)
    /\ LET specimen    == specimens[idx].specimen
           groups      == specimens[idx].groups
           group_names == sorted_keys(groups)
       IN  /\ Len(group_names) = 2
           /\ LET group_a == group_names[1]
                  group_b == group_names[2]
                  df_a    == files[groups[group_a]]
                  df_b    == files[groups[group_b]]
              IN  IF missing_cols(df_a) # << >> \/ missing_cols(df_b) # << >>
                  THEN /\ diagnostics' = Append(diagnostics,
                              [ kind      |-> "columns",
                                specimen  |-> specimen,
                                group_a   |-> group_a,
                                group_b   |-> group_b,
                                missing_a |-> missing_cols(df_a),
                                missing_b |-> missing_cols(df_b) ])
                       /\ idx' = idx + 1
                       /\ UNCHANGED <<pc, frames, outputs, exc>>
                  ELSE IF CountIntRaises(df_a) # None
                  THEN /\ pc' = "raised"
                       /\ exc' = CountIntRaises(df_a)
                       /\ UNCHANGED <<idx, frames, outputs, diagnostics>>
                  ELSE IF CountIntRaises(df_b) # None
                  THEN /\ pc' = "raised"
                       /\ exc' = CountIntRaises(df_b)
                       /\ UNCHANGED <<idx, frames, outputs, diagnostics>>
                  ELSE \E pa \in sort_values(Validated(df_a)),
                          pb \in sort_values(Validated(df_b)) :
                         LET rows == output_rows(Sorted(Validated(df_a), pa),
                                                 Sorted(Validated(df_b), pb))
                         IN  /\ frames' = [ specimen |-> specimen,
                                            index_a  |-> pa,
                                            index_b  |-> pb ]
                             /\ IF rows = {}
                                THEN \* pd.DataFrame([])[col_order]
                                     /\ pc' = "raised"
                                     /\ exc' = KeyError
                                     /\ UNCHANGED <<idx, outputs, diagnostics>>
                                ELSE /\ outputs' = outputs \cup
                                          { [ specimen |-> specimen,
                                              group_a  |-> group_a,
                                              group_b  |-> group_b,
                                              rows     |-> rows ] }
                                     /\ idx' = idx + 1
                                     /\ UNCHANGED <<pc, exc, diagnostics>>
    /\ UNCHANGED <<template, files, specimens, inferred_sep>>

\* main returns after the last specimen.
Finish ==
    /\ pc = "loop"
    /\ idx > Len(specimens)
    /\ pc' = "done"
    /\ UNCHANGED <<template, files, specimens, idx, inferred_sep, frames, outputs,
                   diagnostics, exc>>

(***************************************************************************)
(* The inputs explored: templates, directory listings and tables           *)
(***************************************************************************)
\* The largest number of rows of a group's table.
MaxRows == 3

\* The largest number of rows of group B's table where both tables vary.
MaxRowsB == 1

FILENAME_TEMPLATE ==
    <<"P","B","M","C","-">> \o SPECIMEN \o <<"-","*","-">> \o GROUP
        \o <<"-","*","_","n","e","w",".","x","l","s","x">>

AllColumns == Range(cols_of_interest) \cup { COUNT, CLONOTYPE_ID }

WT == <<"w","t">>

MU == <<"m","u">>

NEG == <<"n","e","g">>

POS == <<"p","o","s">>

MID == <<"m","i","d">>

XLSX == <<".","x","l","s","x">>

CSV == <<".","c","s","v">>

\* A file name the default template matches.
PbmcName(specimen, wild, group) ==
    <<"P","B","M","C","-">> \o specimen \o <<"-">> \o wild \o <<"-">> \o group
        \o <<"-","0","_","n","e","w">> \o XLSX

TRAV(i) == <<"T","R","A","V", AsciiDigits[i + 1]>>

CAS == <<"C","A","S">>

\* A row of a table with the columns cols: two identity cells, the count and
\* the ID vary, the other identity cells are fixed.
MkRow(v, cdr3, count, id, cols) ==
    [ col \in cols |->
        IF col = cols_of_interest[1] THEN v
        ELSE IF col = cols_of_interest[2] THEN <<"T","R","A","J","9">>
        ELSE IF col = cols_of_interest[3] THEN cdr3
        ELSE IF col = cols_of_interest[4] THEN <<"C","A","S","S">>
        ELSE IF col = cols_of_interest[5] THEN <<"T","R","B","V","7">>
        ELSE IF col = cols_of_interest[6] THEN <<"T","R","B","J","2">>
        ELSE IF col = COUNT THEN count
        ELSE id ]

\* A table from the cells <<v, cdr3, count>> of its rows; the Clonotype_ID of
\* a row is its position.
MkTable(cells, cols) ==
    [ columns |-> cols,
      rows    |-> [ i \in DOMAIN cells |->
                      MkRow(cells[i][1], cells[i][2], cells[i][3],
                            << AsciiDigits[i + 1] >>, cols) ] ]

\* The sequences of at most n elements of S.
SeqsUpTo(S, n) == UNION { [1..k -> S] : k \in 0..n }

GoodTable ==
    MkTable(<< <<TRAV(1), CAS, <<"5">> >>, <<TRAV(2), CAS, <<"3">> >> >>, AllColumns)

\* The table kinds of the schema cases: complete, without Count, without
\* Clonotype_ID, without an identity column, and with no valid row.
SchemaTables ==
    { GoodTable,
      MkTable(<< <<TRAV(1), CAS, <<"5">> >> >>, AllColumns \ { COUNT }),
      MkTable(<< <<TRAV(1), CAS, <<"5">> >> >>, AllColumns \ { CLONOTYPE_ID }),
      MkTable(<< <<TRAV(1), CAS, <<"5">> >> >>, AllColumns \ { cols_of_interest[4] }),
      MkTable(<< <<TRAV(1), <<"N","A">>, <<"5">> >> >>, AllColumns) }

MainNames ==
    { PbmcName(WT, <<"1">>, NEG), PbmcName(WT, <<"1">>, POS), PbmcName(WT, <<"2">>, POS),
      PbmcName(WT, <<"1">>, MID), PbmcName(MU, <<"1">>, NEG), PbmcName(MU, <<"1">>, POS) }

\* Any files of two specimens with up to three group labels, two of the
\* files carrying the same label.
InitMain ==
    /\ template = FILENAME_TEMPLATE
    /\ \E names \in SUBSET MainNames : files = [ f \in names |-> GoodTable ]

\* Two specimens of two groups each; the tables of the first are of any kind.
InitSchema ==
    /\ template = FILENAME_TEMPLATE
    /\ \E ta \in SchemaTables, tb \in SchemaTables :
          files = [ f \in { PbmcName(WT, <<"1">>, NEG), PbmcName(WT, <<"1">>, POS),
                            PbmcName(MU, <<"1">>, NEG), PbmcName(MU, <<"1">>, POS) } |->
                      IF f = PbmcName(WT, <<"1">>, NEG) THEN ta
                      ELSE IF f = PbmcName(WT, <<"1">>, POS) THEN tb
                      ELSE GoodTable ]

Templates ==
    { FILENAME_TEMPLATE,
      <<"S","_">> \o SPECIMEN \o <<"_">> \o GROUP \o XLSX,
      <<"S","-">> \o SPECIMEN \o <<"-">> \o GROUP \o CSV,
      <<"S","_">> \o SPECIMEN \o <<"_">> \o GROUP,
      <<"S","-">> \o SPECIMEN \o <<"_">> \o GROUP,
      <<"w","t">> \o SPECIMEN \o <<".">> \o GROUP \o <<".","x">>,
      SPECIMEN \o GROUP \o <<"-","x">>,
      <<"x">> \o SPECIMEN \o <<"y">> \o GROUP \o <<"z">> }

SepNames ==
    { <<"S","_">> \o WT \o <<"_">> \o POS \o XLSX,
      <<"S","_">> \o WT \o <<"_">> \o NEG \o XLSX,
      <<"S","-">> \o WT \o <<"-">> \o POS \o CSV,
      <<"S","-">> \o WT \o <<"-">> \o NEG \o CSV,
      <<"S","-">> \o WT \o <<"_">> \o POS,
      <<"w","t">> \o MU \o <<".">> \o POS \o <<".","x">>,
      <<"a","b","-","x">>,
      <<"x","a","y","b","z">> }

\* Any template of Templates over any listing of SepNames.
InitTemplates ==
    /\ template \in Templates
    /\ \E names \in SUBSET SepNames : files = [ f \in names |-> GoodTable ]

PairNames == { PbmcName(WT, <<"1">>, NEG), PbmcName(WT, <<"1">>, POS) }

\* One specimen with the groups neg (group A) and pos (group B).
Pair(ta, tb) == [ f \in PairNames |-> IF f = PbmcName(WT, <<"1">>, NEG) THEN ta ELSE tb ]

KeyCells ==
    { <<TRAV(1), CAS, <<"5">> >>,
      <<TRAV(1), CAS, <<"3">> >>,
      << <<" ","t","r","a","v","1"," ">>, CAS, <<"5">> >>,
      <<TRAV(2), CAS, <<"3">> >> }

\* Rows whose identity cells differ in case and padding, within and across
\* the two groups.
InitKeys ==
    /\ template = FILENAME_TEMPLATE
    /\ \E ca \in SeqsUpTo(KeyCells, MaxRows), cb \in SeqsUpTo(KeyCells, MaxRowsB) :
          files = Pair(MkTable(ca, AllColumns), MkTable(cb, AllColumns))

ValidityCells ==
    { <<v, c3, <<"5">> >> : v \in { TRAV(1), TRAV(2) },
                            c3 \in { CAS, <<" ","N","a"," ">>, <<" ">> } }

\* Rows with empty and NA identity cells among valid ones.
InitValidity ==
    /\ template = FILENAME_TEMPLATE
    /\ \E ca \in SeqsUpTo(ValidityCells, MaxRows) :
          files = Pair(MkTable(ca, AllColumns),
                       MkTable(<< <<TRAV(1), CAS, <<"4">> >> >>, AllColumns))

CountCells ==
    { <<"5">>, <<"3">>, <<"-","5">>, <<"+","5">>, <<" ","5">>, <<"5",".","0">>,
      << >>, <<"x">>, <<"sup2">>, <<"ar3">> }

\* Rows of distinct clonotypes with any Count cell.
InitCounts ==
    /\ template = FILENAME_TEMPLATE
    /\ \E cs \in SeqsUpTo(CountCells, MaxRows) :
          files = Pair(MkTable([ i \in DOMAIN cs |-> <<TRAV(i), CAS, cs[i]>> ], AllColumns),
                       MkTable(<< <<TRAV(1), CAS, <<"4">> >> >>, AllColumns))

Init ==
    /\ \/ InitMain
       \/ InitSchema
       \/ InitTemplates
       \/ InitKeys
       \/ InitValidity
       \/ InitCounts
    /\ specimens = << >>
    /\ pc = "start"
    /\ idx = 0
    /\ inferred_sep = None
    /\ frames = NoFrames
    /\ outputs = {}
    /\ diagnostics = << >>
    /\ exc = None

Next ==
    \/ LoadFiles
    \/ SkipSpecimen
    \/ CompareSpecimen
    \/ Finish

Spec == Init /\ [][Next]_vars

(***************************************************************************)
(* The properties                                                          *)
(***************************************************************************)
\* The entry of a specimen in load_files' dict.
Entry(specimen) ==
    specimens[CHOOSE i \in DOMAIN specimens : specimens[i].specimen = specimen]

HasTwoGroups(i) == Cardinality(DOMAIN specimens[i].groups) = 2

\* The tables main hands to compare_specimen for a specimen of two groups.
TableA(specimen) == files[Entry(specimen).groups[sorted_keys(Entry(specimen).groups)[1]]]

TableB(specimen) == files[Entry(specimen).groups[sorted_keys(Entry(specimen).groups)[2]]]

\* The identity key with every field trimmed and lower-cased.
NormKey(key) == [ i \in DOMAIN key |-> Lower(Strip(key[i])) ]

\* The identity keys of the validated rows of a table.
ValidKeys(df) == { make_key(Validated(df)[i]) : i \in DOMAIN Validated(df) }

WrittenFor(specimen) == { o \in outputs : o.specimen = specimen }

\* C1: two validated rows, of the same group or of different groups, whose
\* six identity fields are equal after trimming and lower-casing are
\* reconciled into exactly one Comparison Row.
C1_NormalizedKeysReconciled ==
    \A o \in outputs :
        \A k \in ValidKeys(TableA(o.specimen)) \cup ValidKeys(TableB(o.specimen)) :
            Cardinality({ cr \in o.rows : NormKey(cr.key) = NormKey(k) }) = 1

\* C2: the identity keys of the Comparison Rows written for a specimen are
\* exactly the keys of the validated rows of its two tables, each in exactly
\* one Comparison Row.
C2_KeysAreUnionOfValidated ==
    \A o \in outputs :
        LET union == ValidKeys(TableA(o.specimen)) \cup ValidKeys(TableB(o.specimen))
        IN  /\ { cr.key : cr \in o.rows } = union
            /\ \A k \in union : Cardinality({ cr \in o.rows : cr.key = k }) = 1

\* An output whose keys come from both tables, one key being in both, while
\* an invalid row of the input has been left out.
C2_Witness ==
    \E o \in outputs :
        /\ ValidKeys(TableA(o.specimen)) \ ValidKeys(TableB(o.specimen)) # {}
        /\ ValidKeys(TableA(o.specimen)) \cap ValidKeys(TableB(o.specimen)) # {}
        /\ Len(Validated(TableA(o.specimen))) < Len(TableA(o.specimen).rows)

\* The required columns a specimen's tables lack.
MissingRequired(specimen) ==
    (AllColumns \ TableA(specimen).columns) \cup (AllColumns \ TableB(specimen).columns)

\* C3: a specimen one of whose tables lacks a required column (an identity
\* column, Count or Clonotype_ID) is aborted alone: no exception, no output,
\* a message naming the missing columns, and main goes on.
C3_MissingColumnAbortsOnlySpecimen ==
    \A i \in DOMAIN specimens :
        (HasTwoGroups(i) /\ MissingRequired(specimens[i].specimen) # {}) =>
            /\ ~(pc = "raised" /\ idx = i)
            /\ WrittenFor(specimens[i].specimen) = {}
            /\ (i < idx =>
                  \E n \in DOMAIN diagnostics :
                      /\ diagnostics[n].kind = "columns"
                      /\ diagnostics[n].specimen = specimens[i].specimen
                      /\ Range(diagnostics[n].missing_a) \cup Range(diagnostics[n].missing_b)
                            = MissingRequired(specimens[i].specimen))

\* C4: when main has ended, every specimen whose number of group labels is
\* not 2 has no output and a skip message, and every other specimen with
\* two labels (and tables that pass the column check) has its output, with
\* group_a the smaller label; the specimen an exception was raised in set
\* aside.
C4_SkipsAreLocal ==
    pc \in { "done", "raised" } =>
        \A i \in DOMAIN specimens :
            IF ~HasTwoGroups(i)
            THEN /\ WrittenFor(specimens[i].specimen) = {}
                 /\ \E n \in DOMAIN diagnostics :
                       /\ diagnostics[n].kind = "groups"
                       /\ diagnostics[n].specimen = specimens[i].specimen
            ELSE (/\ ~(pc = "raised" /\ idx = i)
                  /\ missing_cols(TableA(specimens[i].specimen)) = << >>
                  /\ missing_cols(TableB(specimens[i].specimen)) = << >>) =>
                     \E o \in WrittenFor(specimens[i].specimen) :
                         StrLess(o.group_a, o.group_b)

\* The first character after the first occurrence of a placeholder, when there
\* is one and it does not open another placeholder; None otherwise.
FollowerOf(tmpl, placeholder) ==
    LET at == { i \in 1..Len(tmpl) : MatchesAt(tmpl, placeholder, i) }
    IN  IF at = {} THEN None
        ELSE LET n == (CHOOSE i \in at : \A j \in at : i <= j) + Len(placeholder)
             IN  IF n <= Len(tmpl) /\ tmpl[n] # "{" THEN tmpl[n] ELSE None

\* The separator as the specification describes it.
DescribedSeparator(tmpl) ==
    IF FollowerOf(tmpl, SPECIMEN) # None THEN FollowerOf(tmpl, SPECIMEN)
    ELSE IF FollowerOf(tmpl, GROUP) # None THEN FollowerOf(tmpl, GROUP)
    ELSE IF Contains(tmpl, <<"-">>) THEN "-"
    ELSE IF Contains(tmpl, <<"_">>) THEN "_"
    ELSE ValueError

UnderscoreTemplate == <<"S","_">> \o SPECIMEN \o <<"_">> \o GROUP \o XLSX

\* C5: the inferred separator is the character after {specimen}, else the one
\* after {group}, else "-" or "_" if the template has it; with the template
\* S_{specimen}_{group}.xlsx the files S_wt_pos.xlsx and S_wt_neg.xlsx are
\* the groups pos and neg of the specimen wt.
C5_SeparatorFollowsPlaceholder ==
    /\ inferred_sep # None => inferred_sep = DescribedSeparator(template)
    /\ (pc = "raised" /\ idx = 0) => DescribedSeparator(template) = ValueError
    /\ ( /\ pc = "loop"
         /\ template = UnderscoreTemplate
         /\ DOMAIN files = { <<"S","_">> \o WT \o <<"_">> \o POS \o XLSX,
                             <<"S","_">> \o WT \o <<"_">> \o NEG \o XLSX } ) =>
            /\ Len(specimens) = 1
            /\ specimens[1].specimen = WT
            /\ DOMAIN specimens[1].groups = { POS, NEG }

\* C6: no Count cell makes compare_specimen raise, and a validated row whose
\* Count cell int() cannot read is reported with count 0.
C6_BadCountIsZeroNeverRaises ==
    /\ ~(pc = "raised" /\ idx >= 1 /\ exc = ValueError)
    /\ \A o \in outputs :
          \A cr \in o.rows :
              /\ (\E i \in DOMAIN Validated(TableA(o.specimen)) :
                     LET r == Validated(TableA(o.specimen))[i]
                     IN  /\ make_key(r) = cr.key
                         /\ Cardinality({ j \in DOMAIN Validated(TableA(o.specimen)) :
                                make_key(Validated(TableA(o.specimen))[j]) = cr.key }) = 1
                         /\ ~IntParseable(r[COUNT])) => cr.count_a = 0

\* The rank of the validated row i of a group: its position in the sorted
\* frame.
RankOf(index, i) == CHOOSE r \in DOMAIN index : index[r] = i

\* Ranks follow the input order among rows of equal count.
StableOn(df, index) ==
    \A i, j \in DOMAIN Validated(df) :
        (/\ i < j
         /\ Count_int(Validated(df)[i][COUNT]) = Count_int(Validated(df)[j][COUNT])) =>
            RankOf(index, i) < RankOf(index, j)

\* C7: within each group the N validated rows get the ranks 1..N by count
\* descending, and rows of equal count keep their input order.
C7_RanksStableOnTies ==
    frames.specimen # NoneStr =>
        /\ StableOn(TableA(frames.specimen), frames.index_a)
        /\ StableOn(TableB(frames.specimen), frames.index_b)

\* C8: in every Comparison Row, a group the key is absent from has count,
\* rank and ID 0, a group the key is present in has a rank >= 1, and the row
\* is common exactly when both ranks are nonzero.
C8_SentinelsForAbsentKeys ==
    \A o \in outputs :
        \A cr \in o.rows :
            /\ cr.key \notin ValidKeys(TableA(o.specimen)) =>
                  (cr.count_a = 0 /\ cr.rank_a = 0 /\ cr.id_a = 0)
            /\ cr.key \notin ValidKeys(TableB(o.specimen)) =>
                  (cr.count_b = 0 /\ cr.rank_b = 0 /\ cr.id_b = 0)
            /\ cr.key \in ValidKeys(TableA(o.specimen)) => cr.rank_a >= 1
            /\ cr.key \in ValidKeys(TableB(o.specimen)) => cr.rank_b >= 1
            /\ (cr.presence = "common") <=> (cr.rank_a # 0 /\ cr.rank_b # 0)

\* An output with a common row and a row unique to group A.
C8_Witness ==
    \E o \in outputs :
        /\ \E cr \in o.rows : cr.presence = "common" /\ cr.rank_a >= 1 /\ cr.rank_b >= 1
        /\ \E cr \in o.rows : cr.presence = "unique" /\ cr.rank_b = 0 /\ cr.rank_a >= 1

\* The positions, in the sorted frame of a group, of the rows with a key.
PositionsOf(df, index, key) ==
    { r \in DOMAIN index : make_key(Validated(df)[index[r]]) = key }

\* What a Comparison Row reports for a group agrees with the occurrence of
\* its key that holds the largest rank position.
FromLastOccurrence(df, index, key, rank, count, id) ==
    PositionsOf(df, index, key) # {} =>
        LET last == CHOOSE r \in PositionsOf(df, index, key) :
                        \A q \in PositionsOf(df, index, key) : q <= r
            row  == Validated(df)[index[last]]
        IN  /\ rank = last
            /\ count = get_to_int(row, COUNT)
            /\ id = get_to_int(row, CLONOTYPE_ID)

\* C9: a key that occurs several times in a group yields one Comparison Row,
\* whose rank, count and ID for that group are those of the occurrence with
\* the largest rank position.
C9_DuplicateKeyTakesLastOccurrence ==
    \A o \in outputs :
        o.specimen = frames.specimen =>
            \A cr \in o.rows :
                /\ Cardinality({ c2 \in o.rows : c2.key = cr.key }) = 1
                /\ FromLastOccurrence(TableA(o.specimen), frames.index_a, cr.key,
                                      cr.rank_a, cr.count_a, cr.id_a)
                /\ FromLastOccurrence(TableB(o.specimen), frames.index_b, cr.key,
                                      cr.rank_b, cr.count_b, cr.id_b)

\* An output for a group A in which one key occurs twice, another row ranked
\* between the two occurrences, and the Comparison Row carries rank 3.
C9_Witness ==
    \E o \in outputs :
        /\ o.specimen = frames.specimen
        /\ \E cr \in o.rows :
              /\ Cardinality(PositionsOf(TableA(o.specimen), frames.index_a, cr.key)) = 2
              /\ PositionsOf(TableA(o.specimen), frames.index_a, cr.key) = { 1, 3 }
              /\ cr.rank_a = 3

\* No key occurs twice among the validated rows of the table.
NoDuplicateKeys(df) == Cardinality(ValidKeys(df)) = Len(Validated(df))

\* C10: for two Comparison Rows whose keys are in group A (no duplicate
\* keys), a strictly greater reported count means a strictly smaller rank;
\* likewise for group B.
C10_RanksAgreeWithReportedCounts ==
    \A o \in outputs :
        \A c1, c2 \in o.rows :
            /\ (/\ NoDuplicateKeys(TableA(o.specimen))
                /\ c1.rank_a >= 1 /\ c2.rank_a >= 1
                /\ c1.count_a > c2.count_a) => c1.rank_a < c2.rank_a
            /\ (/\ NoDuplicateKeys(TableB(o.specimen))
                /\ c1.rank_b >= 1 /\ c2.rank_b >= 1
                /\ c1.count_b > c2.count_b) => c1.rank_b < c2.rank_b
====
